---- MODULE Spec2Model ----
(***************************************************************************)
(* A model of mapbuffer (src/src/mapbuffer.cpp): the cache of submaps      *)
(* keyed by absolute submap coordinate, the quad files behind it, the lazy *)
(* load of a quad on a cache miss and the parallel save of all quads.      *)
(***************************************************************************)
EXTENDS Integers, Sequences, FiniteSets, TLC

\* ------------------------------------------------------------------ bounds

\* Number of calls a client makes on the mapbuffer in one behaviour.
MaxOps == 3

\* Number of tasks of one save that meet a failure (a write that fails, a
\* filesystem call that throws).
MaxFaults == 1

\* ------------------------------------------------------------- coordinates

\* The overmap-terrain (quad) addresses of the modelled world.  The second
\* one has an x of four digits, where a grouping locale renders a number
\* differently from "%d".
OmtAddrs == { << 0, 0, 0 >>, << 1000, 0, 0 >> }

\* point_zero, point_south, point_east, point_south_east
offsets == << <<0, 0>>, <<0, 1>>, <<1, 0>>, <<1, 1>> >>

\* project_to<coords::sm>( om_addr ): the first submap of a quad.
ProjectToSm(om) == << 2 * om[1], 2 * om[2], om[3] >>

\* project_to<coords::omt>( p ): the quad that stores submap p.
ProjectToOmt(p) == << p[1] \div 2, p[2] \div 2, p[3] >>

\* project_to<coords::seg>( om_addr ): the segment (directory) of a quad.
ProjectToSeg(om) == << om[1] \div 32, om[2] \div 32, om[3] >>

\* submap_addrs of save_quad: the four submap addresses of a quad, in the
\* order of offsets.
AddOffset(p, offset) == << p[1] + offset[1], p[2] + offset[2], p[3] >>

submap_addrs(om) ==
    << AddOffset(ProjectToSm(om), offsets[1]), AddOffset(ProjectToSm(om), offsets[2]),
       AddOffset(ProjectToSm(om), offsets[3]), AddOffset(ProjectToSm(om), offsets[4]) >>

QuadSet(om) == { submap_addrs(om)[i] : i \in 1..Len(offsets) }

NearOmt == << 0, 0, 0 >>
FarOmt  == << 1000, 0, 0 >>

\* The submap addresses callers of the mapbuffer use: every address of the
\* near quad and the first address of the far one.
Addrs == QuadSet(NearOmt) \cup { submap_addrs(FarOmt)[1] }

\* The order of the keys of std::map<tripoint_abs_sm, ...>: x, then y, then z.
Less(a, b) ==
    \/ a[1] < b[1]
    \/ a[1] = b[1] /\ a[2] < b[2]
    \/ a[1] = b[1] /\ a[2] = b[2] /\ a[3] < b[3]

\* ------------------------------------------------------------------ submaps

\* What the mapbuffer asks of a submap: is_uniform(), reverted, and a
\* payload (data) that store() writes and load() reads.
UniformSm  == [ uniform |-> TRUE,  reverted |-> FALSE, data |-> 0 ]
RevertedSm == [ uniform |-> TRUE,  reverted |-> TRUE,  data |-> 0 ]
PlainSm(d) == [ uniform |-> FALSE, reverted |-> FALSE, data |-> d ]

Payloads == { 1, 2 }
Submaps == { UniformSm, RevertedSm } \cup { PlainSm(d) : d \in Payloads }

\* A std::unique_ptr<submap> is the empty sequence when it owns nothing
\* (what operator[] of the map creates for a key that is not in it) and a
\* sequence of one submap when it owns one.  A submap* is modelled alike.
NullPtr == << >>
Own(sm) == << sm >>

IsSubmap(v) == v # NullPtr

\* submap::store: the payload fields of a record.  The reverted flag is a
\* run-time flag and is not part of the payload.
Store(sm) == [ uniform |-> sm.uniform, data |-> sm.data ]

\* submap::load: the submap a record's payload describes.
Load(payload) ==
    [ uniform |-> payload.uniform, reverted |-> FALSE, data |-> payload.data ]

\* ----------------------------------------------------------------- the map

EmptyMap == [ p \in {} |-> NullPtr ]

\* submaps.count( p )
Count(m, p) == IF p \in DOMAIN m THEN 1 ELSE 0

\* submaps[p] = v
Put(m, p, v) == [ x \in (DOMAIN m) \cup {p} |-> IF x = p THEN v ELSE m[x] ]

\* submaps.erase( p )
Erase(m, p) == [ x \in (DOMAIN m) \ {p} |-> m[x] ]

\* The coordinates at which a submap is resident.
Resident(m) == { p \in DOMAIN m : IsSubmap(m[p]) }

\* -------------------------------------------------------------------- files

\* string_format( "%d", n )
FormatD(n) == << n >>

\* operator<< of a std::ostringstream on an int: the digits of n, split in
\* groups of three when the global locale groups thousands.
FormatStream(n, grouping) ==
    IF grouping /\ n >= 1000 THEN << n \div 1000, n % 1000 >> ELSE << n >>

find_dirname(om) == ProjectToSeg(om)

find_quad_path(dirname, om) ==
    [ dir |-> dirname, name |-> << FormatD(om[1]), FormatD(om[2]), FormatD(om[3]) >> ]

\* legacy_quad_path of unserialize_submaps
legacy_quad_path(dirname, om, grouping) ==
    [ dir |-> dirname,
      name |-> << FormatStream(om[1], grouping), FormatStream(om[2], grouping),
                  FormatStream(om[3], grouping) >> ]

QuadPath(om) == find_quad_path(find_dirname(om), om)

\* Record with the x and y coordinates written in the wrong order.
Record_swapped(p, sm) ==
    [ coordinates |-> << p[2], p[1], p[3] >>, payload |-> Store(sm) ]

\* One record of a quad file: the coordinates and the payload of a submap.
Record(p, sm) == [ coordinates |-> p, payload |-> Store(sm) ]

\* file_exist( path ), fs::exists( path )
file_exist(f, path) == path \in DOMAIN f

\* fs::remove( path )
RemoveFile(f, path) == [ x \in (DOMAIN f) \ {path} |-> f[x] ]

\* The file at path replaced by contents.
WriteFile(f, path, contents) ==
    [ x \in (DOMAIN f) \cup {path} |-> IF x = path THEN contents ELSE f[x] ]

NoFiles == [ x \in {} |-> << >> ]

\* ------------------------------------------------------------ cache, load

\* mapbuffer::add_submap( p, sm ): the value returned and the map after it.
add_submap(m, p, sm) ==
    IF Count(m, p) # 0
    THEN [ ret |-> FALSE, submaps |-> m ]
    ELSE [ ret |-> TRUE,  submaps |-> Put(m, p, Own(sm)) ]

\* mapbuffer::remove_submap( addr ): the map after it, and whether the
\* debugmsg "Tried to remove non-existing submap" was issued.
remove_submap(m, addr) ==
    IF addr \notin DOMAIN m
    THEN [ debugmsg |-> TRUE,  submaps |-> m ]
    ELSE [ debugmsg |-> FALSE, submaps |-> Erase(m, addr) ]

\* mapbuffer::deserialize( ja ): every record of the array is added to the
\* map unless its coordinates are already a key.
RECURSIVE deserialize(_, _)
deserialize(m, ja) ==
    IF ja = << >> THEN m
    ELSE deserialize(add_submap(m, Head(ja).coordinates, Load(Head(ja).payload)).submaps,
                     Tail(ja))

\* generate_uniform_omt( p, oid ): when the terrain of the quad is uniform,
\* a uniform submap is added at each of its four addresses that is free.
RECURSIVE generate_uniform_from(_, _, _)
generate_uniform_from(m, om, i) ==
    IF i > Len(offsets) THEN m
    ELSE generate_uniform_from(add_submap(m, submap_addrs(om)[i], UniformSm).submaps,
                               om, i + 1)

generate_uniform_omt(m, om, uniform_terrain) ==
    IF uniform_terrain THEN generate_uniform_from(m, om, 1) ELSE m

\* What a load consults outside the mapbuffer: whether the global locale
\* groups thousands, whether the file can be read and parsed, and whether
\* overmap_buffer.ter( om_addr ) is a uniform terrain.
Envs == [ grouping : BOOLEAN, readable : BOOLEAN, uniform_terrain : BOOLEAN ]

\* ResolvedPath with the legacy name tried first.
ResolvedPath_legacy_first(f, om, grouping) ==
    IF file_exist(f, legacy_quad_path(find_dirname(om), om, grouping))
    THEN legacy_quad_path(find_dirname(om), om, grouping)
    ELSE find_quad_path(find_dirname(om), om)

\* The path unserialize_submaps reads for quad om.
ResolvedPath(f, om, grouping) ==
    IF /\ ~file_exist(f, find_quad_path(find_dirname(om), om))
       /\ file_exist(f, legacy_quad_path(find_dirname(om), om, grouping))
    THEN legacy_quad_path(find_dirname(om), om, grouping)
    ELSE find_quad_path(find_dirname(om), om)

\* read_from_file_optional_json( quad_path, deserialize ): whether the file
\* was read, and the map after it.
read_from_file_optional_json(m, f, path, readable) ==
    IF file_exist(f, path) /\ readable
    THEN [ ret |-> TRUE,  submaps |-> deserialize(m, f[path]) ]
    ELSE [ ret |-> FALSE, submaps |-> m ]

\* unserialize_submaps without the return of line 312: the uniform submaps
\* are filled in also when no file was read.
unserialize_submaps_always_filling(m, f, p, env) ==
    LET om   == ProjectToOmt(p)
        read == read_from_file_optional_json(m, f, ResolvedPath(f, om, env.grouping),
                                             env.readable)
        full == generate_uniform_omt(read.submaps, om, env.uniform_terrain)
    IN  IF Count(full, p) = 0 THEN [ ret |-> NullPtr, submaps |-> full ]
        ELSE [ ret |-> full[p], submaps |-> full ]

\* mapbuffer::unserialize_submaps( p ): the submap* returned and the map
\* after it.
unserialize_submaps(m, f, p, env) ==
    LET om   == ProjectToOmt(p)
        read == read_from_file_optional_json(m, f, ResolvedPath(f, om, env.grouping),
                                             env.readable)
        full == generate_uniform_omt(read.submaps, om, env.uniform_terrain)
    IN  IF ~read.ret THEN [ ret |-> NullPtr, submaps |-> read.submaps ]
        ELSE IF Count(full, p) = 0 THEN [ ret |-> NullPtr, submaps |-> full ]
        ELSE [ ret |-> full[p], submaps |-> full ]

\* mapbuffer::lookup_submap( p )
lookup_submap(m, f, p, env) ==
    IF p \notin DOMAIN m
    THEN unserialize_submaps(m, f, p, env)
    ELSE [ ret |-> m[p], submaps |-> m ]

\* mapbuffer::submap_exists( p ): the submap* of unserialize_submaps is
\* converted to bool.
submap_exists(m, f, p, env) ==
    IF p \notin DOMAIN m
    THEN [ ret |-> unserialize_submaps(m, f, p, env).ret # NullPtr,
           submaps |-> unserialize_submaps(m, f, p, env).submaps ]
    ELSE [ ret |-> TRUE, submaps |-> m ]

\* clear_outside_reality_bubble with the test of line 64 negated.
clear_inside_reality_bubble(m, inbounds) ==
    [ p \in (DOMAIN m) \ inbounds |-> m[p] ]

\* mapbuffer::clear_outside_reality_bubble(): inbounds is the set of submap
\* addresses for which here.inbounds() holds.
clear_outside_reality_bubble(m, inbounds) ==
    [ p \in (DOMAIN m) \cap inbounds |-> m[p] ]

\* -------------------------------------------------------------------- state

VARIABLES
    submaps,    \* mapbuffer::submaps: coordinate -> std::unique_ptr<submap>
    files,      \* the files under <world>/maps: path -> array of records
    ops,        \* the number of calls made so far
    ret,        \* the last call made and what it returned
    pc,         \* where mapbuffer::save is: "idle", "launch", "join", "unwind"
    sv,         \* the locals of mapbuffer::save
    tasks       \* the std::async tasks of the running save, by quad

vars == << submaps, files, ops, ret, pc, sv, tasks >>

\* The locals of a save that is not running.  cursor is the key the
\* range-for is at, got the number of futures whose get() has returned;
\* submaps0 and files0 record the map and the files as save found them.
NoSave ==
    [ delete_after_save |-> FALSE, saved_submaps |-> {},
      cursor |-> << >>, futures |-> << >>, got |-> 0,
      submaps_to_delete |-> << >>, submaps0 |-> EmptyMap, files0 |-> NoFiles ]

NoTasks == [ om \in {} |-> << >> ]

\* ------------------------------------------------------------------- worlds

FullQuadFile(om) ==
    << Record(submap_addrs(om)[1], PlainSm(1)), Record(submap_addrs(om)[2], PlainSm(2)),
       Record(submap_addrs(om)[3], PlainSm(2)), Record(submap_addrs(om)[4], PlainSm(1)) >>

PartQuadFile(om) == << Record(submap_addrs(om)[1], PlainSm(1)) >>

\* The worlds a game starts from: what earlier runs left under maps/.  A
\* file under the legacy name was written by an old version in a locale
\* that groups thousands.
Merge(f, g) == [ x \in (DOMAIN f) \cup (DOMAIN g) |-> IF x \in DOMAIN f THEN f[x] ELSE g[x] ]

Worlds ==
    { NoFiles,
      WriteFile(NoFiles, QuadPath(NearOmt), PartQuadFile(NearOmt)),
      Merge(WriteFile(NoFiles, QuadPath(NearOmt), FullQuadFile(NearOmt)),
            WriteFile(NoFiles, legacy_quad_path(find_dirname(FarOmt), FarOmt, TRUE),
                      PartQuadFile(FarOmt))) }

\* What here.inbounds( p ) may hold of, for submap addresses.
Bubbles ==
    { {}, QuadSet(NearOmt), QuadSet(FarOmt),
      { submap_addrs(NearOmt)[1], submap_addrs(NearOmt)[2] } }

Init ==
    /\ submaps = EmptyMap
    /\ files \in Worlds
    /\ ops = 0
    /\ ret = [ op |-> "none", val |-> << >> ]
    /\ pc = "idle"
    /\ sv = NoSave
    /\ tasks = NoTasks

\* ------------------------------------------------------------------- calls

Idle == pc = "idle" /\ ops < MaxOps

SaveVars == << pc, sv, tasks >>

\* MAPBUFFER.add_submap( p, sm )
AddSubmap(p, sm) ==
    /\ Idle
    /\ submaps' = add_submap(submaps, p, sm).submaps
    /\ ret' = [ op |-> "add_submap", val |-> add_submap(submaps, p, sm).ret ]
    /\ ops' = ops + 1
    /\ UNCHANGED << files, SaveVars >>

\* MAPBUFFER.remove_submap( p )
RemoveSubmap(p) ==
    /\ Idle
    /\ submaps' = remove_submap(submaps, p).submaps
    /\ ret' = [ op |-> "remove_submap", val |-> remove_submap(submaps, p).debugmsg ]
    /\ ops' = ops + 1
    /\ UNCHANGED << files, SaveVars >>

\* MAPBUFFER.lookup_submap( p )
LookupSubmap(p, env) ==
    /\ Idle
    /\ submaps' = lookup_submap(submaps, files, p, env).submaps
    /\ ret' = [ op |-> "lookup_submap", val |-> lookup_submap(submaps, files, p, env).ret ]
    /\ ops' = ops + 1
    /\ UNCHANGED << files, SaveVars >>

\* MAPBUFFER.submap_exists( p )
SubmapExists(p, env) ==
    /\ Idle
    /\ submaps' = submap_exists(submaps, files, p, env).submaps
    /\ ret' = [ op |-> "submap_exists", val |-> submap_exists(submaps, files, p, env).ret ]
    /\ ops' = ops + 1
    /\ UNCHANGED << files, SaveVars >>

\* MAPBUFFER.clear()
Clear ==
    /\ Idle
    /\ submaps' = EmptyMap
    /\ ret' = [ op |-> "clear", val |-> << >> ]
    /\ ops' = ops + 1
    /\ UNCHANGED << files, SaveVars >>

\* MAPBUFFER.clear_outside_reality_bubble()
ClearOutsideRealityBubble(inbounds) ==
    /\ Idle
    /\ submaps' = clear_outside_reality_bubble(submaps, inbounds)
    /\ ret' = [ op |-> "clear_outside_reality_bubble", val |-> << >> ]
    /\ ops' = ops + 1
    /\ UNCHANGED << files, SaveVars >>

\* ---------------------------------------------------------------- save_quad

\* inspect_from without the branch of line 220: a reverted submap is not
\* noticed.
RECURSIVE inspect_from_without_reverted(_, _, _, _, _)
inspect_from_without_reverted(m, om, file_exists, i, acc) ==
    IF i > Len(submap_addrs(om)) THEN acc
    ELSE LET addr == submap_addrs(om)[i]
             sm   == IF addr \in DOMAIN m THEN m[addr] ELSE NullPtr
             next == IF sm = NullPtr THEN acc
                     ELSE IF ~sm[1].uniform
                          THEN [ acc EXCEPT !.all_uniform = FALSE ]
                     ELSE acc
         IN  inspect_from_without_reverted(m, om, file_exists, i + 1, next)

\* The first loop of save_quad from its i-th address on: acc holds
\* all_uniform and reverted_to_uniform.  submaps[submap_addr].get() is null
\* for an address that is not a key.
RECURSIVE inspect_from(_, _, _, _, _)
inspect_from(m, om, file_exists, i, acc) ==
    IF i > Len(submap_addrs(om)) THEN acc
    ELSE LET addr == submap_addrs(om)[i]
             sm   == IF addr \in DOMAIN m THEN m[addr] ELSE NullPtr
             next == IF sm = NullPtr THEN acc
                     ELSE IF ~sm[1].uniform
                          THEN [ acc EXCEPT !.all_uniform = FALSE ]
                     ELSE IF sm[1].reverted
                          THEN [ acc EXCEPT !.reverted_to_uniform = file_exists ]
                     ELSE acc
         IN  inspect_from(m, om, file_exists, i + 1, next)

\* inspect_quad with all_uniform starting false.
inspect_quad_never_uniform(m, om, file_exists) ==
    inspect_from(m, om, file_exists, 1,
                 [ all_uniform |-> FALSE, reverted_to_uniform |-> FALSE ])

inspect_quad(m, om, file_exists) ==
    inspect_from(m, om, file_exists, 1,
                 [ all_uniform |-> TRUE, reverted_to_uniform |-> FALSE ])

\* The addresses of the quad for which submaps[submap_addr] creates a key.
MissingKeys(m, om) == QuadSet(om) \ DOMAIN m

\* The map after the first loop of save_quad: operator[] has put a null
\* pointer under every address of the quad that was not a key.
with_null_keys(m, om) ==
    [ x \in (DOMAIN m) \cup QuadSet(om) |-> IF x \in DOMAIN m THEN m[x] ELSE NullPtr ]

\* The addresses of the quad that are the key of a submap, in the order of
\* submap_addrs: those the all_uniform branch queues and those the writer
\* writes a record of.
held_addrs(m, om) ==
    LET Held(addr) == Count(m, addr) > 0 /\ m[addr] # NullPtr
    IN  SelectSeq(submap_addrs(om), Held)

\* The array the writer of save_quad writes.
RECURSIVE records_of(_, _)
records_of(m, addrs) ==
    IF addrs = << >> THEN << >>
    ELSE << Record(Head(addrs), m[Head(addrs)][1]) >> \o records_of(m, Tail(addrs))

quad_records(m, om) == records_of(m, held_addrs(m, om))

\* What can fail in save_quad: fs::exists throws, write_to_file fails
\* before it calls the writer, write_to_file fails after the writer has run
\* (the file is left as it was), fs::remove throws.
Faults == { "exists_throws", "write_fails_early", "write_fails_late", "remove_throws" }

WriteFails == { "write_fails_early", "write_fails_late" }

\* mapbuffer::save_quad( dirname, filename, om_addr, submaps_to_delete,
\* delete_after_save, submaps_mutex ) under the fault given ("none" for
\* none); lost says that the insertions of the first loop are lost to a
\* data race.  The result: the map, the files and submaps_to_delete after
\* the call, whether it threw, the locals of the call, and the fault met.
save_quad(m, f, om, delete_after_save, fault, lost) ==
    LET filename    == QuadPath(om)
        file_exists == file_exist(f, filename)
        seen        == inspect_quad(m, om, file_exists)
        inspected   == IF lost THEN m ELSE with_null_keys(m, om)
        tombstone   == seen.all_uniform /\ seen.reverted_to_uniform
        returns     == seen.all_uniform /\ ~seen.reverted_to_uniform
        first       == IF seen.all_uniform /\ delete_after_save
                       THEN held_addrs(inspected, om) ELSE << >>
        writer_ran  == ~returns /\ fault # "write_fails_early"
        second      == IF writer_ran /\ delete_after_save
                       THEN first \o held_addrs(inspected, om) ELSE first
        written     == IF ~returns /\ fault \notin WriteFails
                       THEN WriteFile(f, filename, quad_records(inspected, om)) ELSE f
        removed     == IF tombstone /\ fault # "remove_throws"
                       THEN RemoveFile(written, filename) ELSE written
        met         == IF fault \in WriteFails /\ ~returns THEN fault
                       ELSE IF fault = "remove_throws" /\ tombstone THEN fault
                       ELSE "none"
    IN  IF fault = "exists_throws"
        THEN [ submaps |-> m, files |-> f, submaps_to_delete |-> << >>, threw |-> TRUE,
               all_uniform |-> TRUE, reverted_to_uniform |-> FALSE,
               file_exists |-> FALSE, fault |-> fault ]
        ELSE [ submaps |-> inspected, files |-> removed, submaps_to_delete |-> second,
               threw |-> met = "remove_throws",
               all_uniform |-> seen.all_uniform,
               reverted_to_uniform |-> seen.reverted_to_uniform,
               file_exists |-> file_exists, fault |-> met ]

\* A task as std::async launches it: the lambda has captured
\* delete_after_save and inside_reality_bubble.
NewTask(delete_after_save, inside_reality_bubble) ==
    [ pc |-> "launched", delete_after_save |-> delete_after_save,
      inside_reality_bubble |-> inside_reality_bubble,
      local_submaps_to_delete |-> << >>,
      all_uniform |-> TRUE, reverted_to_uniform |-> FALSE, file_exists |-> FALSE,
      fault |-> "none" ]

\* Force without the reality bubble: the caller's flag alone is passed on.
Force_without_bubble(t) == t.delete_after_save

\* The delete_after_save the lambda passes to save_quad, line 169.
Force(t) == t.delete_after_save \/ ~t.inside_reality_bubble

\* The failures the tasks of the running save have met so far.
FaultsMet == Cardinality({ om \in DOMAIN tasks : tasks[om].fault # "none" })

Running(om) == om \in DOMAIN tasks /\ tasks[om].pc \notin { "done", "threw" }

\* The first loop of save_quad inserts keys while the task of another quad
\* has its own first loop, which inserts keys too, still to run: the two
\* loops can run at once.
Racing(om) ==
    /\ MissingKeys(submaps, om) # {}
    /\ \E other \in (DOMAIN tasks) \ {om} :
           tasks[other].pc = "launched" /\ MissingKeys(submaps, other) # {}

\* The lambda of a task, lines 168-169: save_quad runs.  Two threads that
\* insert into the std::map at once are a data race: the insertions of
\* operator[] then take effect or are lost.
TaskSaveQuad(om, fault, lost) ==
    /\ om \in DOMAIN tasks
    /\ tasks[om].pc = "launched"
    /\ lost => Racing(om)
    /\ fault # "none" => FaultsMet < MaxFaults
    /\ \E r \in { save_quad(submaps, files, om, Force(tasks[om]), fault, lost) } :
           /\ r.fault = fault
           /\ submaps' = r.submaps
           /\ files' = r.files
           /\ tasks' = [ tasks EXCEPT ![om] =
                  [ @ EXCEPT !.pc = IF r.threw THEN "threw" ELSE "saved",
                             !.local_submaps_to_delete = r.submaps_to_delete,
                             !.all_uniform = r.all_uniform,
                             !.reverted_to_uniform = r.reverted_to_uniform,
                             !.file_exists = r.file_exists,
                             !.fault = r.fault ] ]
    /\ UNCHANGED << ops, ret, pc, sv >>

\* The lambda of a task, lines 171-175: under submaps_mutex the local list
\* is spliced to the end of submaps_to_delete, and the task ends.
TaskSplice(om) ==
    /\ om \in DOMAIN tasks
    /\ tasks[om].pc = "saved"
    /\ sv' = [ sv EXCEPT !.submaps_to_delete = @ \o tasks[om].local_submaps_to_delete ]
    /\ tasks' = [ tasks EXCEPT ![om] = [ @ EXCEPT !.pc = "done" ] ]
    /\ UNCHANGED << submaps, files, ops, ret, pc >>

\* --------------------------------------------------------------------- save

\* The keys the range-for of save has still to visit.
KeysAfter(m, cursor) ==
    IF cursor = << >> THEN DOMAIN m ELSE { k \in DOMAIN m : Less(cursor[1], k) }

\* UnsavedKeys without the test of line 157: every key launches a task.
UnsavedKeys_without_test(m, cursor, saved) == KeysAfter(m, cursor)

\* Of those, the keys whose quad is not in saved_submaps.
UnsavedKeys(m, cursor, saved) ==
    { k \in KeysAfter(m, cursor) : ProjectToOmt(k) \notin saved }

FirstKey(keys) == CHOOSE k \in keys : \A j \in keys : j = k \/ Less(k, j)

\* MAPBUFFER.save( delete_after_save ), lines 138-153.
SaveBegin(delete_after_save) ==
    /\ Idle
    /\ pc' = "launch"
    /\ sv' = [ NoSave EXCEPT !.delete_after_save = delete_after_save,
                             !.submaps0 = submaps,
                             !.files0 = files ]
    /\ ret' = [ op |-> "save", val |-> "running" ]
    /\ ops' = ops + 1
    /\ UNCHANGED << submaps, files, tasks >>

\* save, lines 155-176: the loop runs to the next key of a quad it has not
\* seen and launches the task of that quad, or runs to its end.
\* inside_reality_bubble is what here.inbounds( om_addr ) returns.
SaveLaunch(inside_reality_bubble) ==
    /\ pc = "launch"
    /\ LET keys == UnsavedKeys(submaps, sv.cursor, sv.saved_submaps)
       IN  IF keys = {}
           THEN /\ pc' = "join"
                /\ UNCHANGED << sv, tasks >>
           ELSE LET om_addr == ProjectToOmt(FirstKey(keys))
                IN  /\ sv' = [ sv EXCEPT !.saved_submaps = @ \cup { om_addr },
                                         !.cursor = << FirstKey(keys) >>,
                                         !.futures = Append(@, om_addr) ]
                    /\ tasks' = [ om \in (DOMAIN tasks) \cup { om_addr } |->
                                    IF om \in DOMAIN tasks THEN tasks[om]
                                    ELSE NewTask(sv.delete_after_save,
                                                 inside_reality_bubble) ]
                    /\ pc' = pc
    /\ UNCHANGED << submaps, files, ops, ret >>

\* SaveJoin with a future that is polled instead of waited for: the loop
\* goes on although the task still runs.
SaveJoin_without_waiting ==
    /\ pc = "join"
    /\ sv.got < Len(sv.futures)
    /\ IF tasks[sv.futures[sv.got + 1]].pc = "threw"
       THEN pc' = "unwind" /\ sv' = sv
       ELSE pc' = pc /\ sv' = [ sv EXCEPT !.got = @ + 1 ]
    /\ UNCHANGED << submaps, files, ops, ret, tasks >>

\* save, lines 181-192: fut.get() of the next future returns when its task
\* has ended, and rethrows what the task threw.
SaveJoin ==
    /\ pc = "join"
    /\ sv.got < Len(sv.futures)
    /\ ~Running(sv.futures[sv.got + 1])
    /\ IF tasks[sv.futures[sv.got + 1]].pc = "threw"
       THEN pc' = "unwind" /\ sv' = sv
       ELSE pc' = pc /\ sv' = [ sv EXCEPT !.got = @ + 1 ]
    /\ UNCHANGED << submaps, files, ops, ret, tasks >>

\* The exception leaves save: the destructors of the futures wait for the
\* tasks that still run, and nothing is removed from the map.
SaveUnwind ==
    /\ pc = "unwind"
    /\ \A om \in DOMAIN tasks : ~Running(om)
    /\ pc' = "idle"
    /\ ret' = [ op |-> "save", val |-> "threw" ]
    /\ sv' = NoSave
    /\ tasks' = NoTasks
    /\ UNCHANGED << submaps, files, ops >>

\* The loop of lines 194-196 from the list given: the map after it and the
\* number of debugmsgs of remove_submap.
RECURSIVE remove_all(_, _, _)
remove_all(m, list, msgs) ==
    IF list = << >> THEN [ submaps |-> m, debugmsgs |-> msgs ]
    ELSE remove_all(remove_submap(m, Head(list)).submaps, Tail(list),
                    IF remove_submap(m, Head(list)).debugmsg THEN msgs + 1 ELSE msgs)

\* save, lines 194-197: every future has been got; the submaps queued are
\* removed and save returns.
SaveEvict ==
    /\ pc = "join"
    /\ sv.got = Len(sv.futures)
    /\ submaps' = remove_all(submaps, sv.submaps_to_delete, 0).submaps
    /\ pc' = "idle"
    /\ ret' = [ op |-> "save", val |-> "returned" ]
    /\ sv' = NoSave
    /\ tasks' = NoTasks
    /\ UNCHANGED << files, ops >>

\* ------------------------------------------------------------ specification

Next ==
    \/ \E p \in Addrs, sm \in Submaps : AddSubmap(p, sm)
    \/ \E p \in Addrs : RemoveSubmap(p)
    \/ \E p \in Addrs, env \in Envs : LookupSubmap(p, env)
    \/ \E p \in Addrs, env \in Envs : SubmapExists(p, env)
    \/ Clear
    \/ \E inbounds \in Bubbles : ClearOutsideRealityBubble(inbounds)
    \/ \E d \in BOOLEAN : SaveBegin(d)
    \/ \E inside \in BOOLEAN : SaveLaunch(inside)
    \/ SaveJoin
    \/ SaveUnwind
    \/ SaveEvict
    \/ \E om \in OmtAddrs, fault \in Faults \cup { "none" }, lost \in BOOLEAN :
           TaskSaveQuad(om, fault, lost)
    \/ \E om \in OmtAddrs : TaskSplice(om)

Spec == Init /\ [][Next]_vars

\* The maps a client has built by adding the four submaps of the near quad,
\* none of them uniform, and perhaps one submap of the far quad.
FullQuadMaps ==
    LET near(d) == [ p \in QuadSet(NearOmt) |->
                       Own(PlainSm(d[CHOOSE i \in 1..Len(offsets) : submap_addrs(NearOmt)[i] = p])) ]
    IN  { near(d) : d \in [ 1..Len(offsets) -> Payloads ] }
        \cup { Put(near(d), submap_addrs(FarOmt)[1], Own(sm)) :
                   d \in [ 1..Len(offsets) -> Payloads ], sm \in { UniformSm, PlainSm(1) } }

\* The state after those calls of add_submap; one more call can follow.
InitFullQuad ==
    /\ submaps \in FullQuadMaps
    /\ files \in Worlds
    /\ ops = MaxOps - 1
    /\ ret = [ op |-> "add_submap", val |-> TRUE ]
    /\ pc = "idle"
    /\ sv = NoSave
    /\ tasks = NoTasks

SpecFullQuad == InitFullQuad /\ [][Next]_vars

\* The steps of a task: std::async( std::launch::async, ... ) gives each
\* task a thread of its own, which the scheduler of the system runs.
TaskStep(om) ==
    \/ \E fault \in Faults \cup { "none" }, lost \in BOOLEAN : TaskSaveQuad(om, fault, lost)
    \/ TaskSplice(om)

\* The steps of save on the thread of its caller.
SaveStep ==
    \/ \E inside \in BOOLEAN : SaveLaunch(inside)
    \/ SaveJoin
    \/ SaveUnwind
    \/ SaveEvict

\* Every thread that can take a step is run in the end; a client need not
\* make another call.
Fairness ==
    /\ WF_vars(SaveStep)
    /\ \A om \in OmtAddrs : WF_vars(TaskStep(om))

\* The maps a client has built by adding one submap of the near quad and
\* one of the far quad.
TwoQuadMaps ==
    { Put(Put(EmptyMap, submap_addrs(NearOmt)[1], Own(near)),
          submap_addrs(FarOmt)[1], Own(far)) : near, far \in { RevertedSm, PlainSm(1) } }

\* The state after those calls of add_submap; one more call can follow.
InitTwoQuads ==
    /\ submaps \in TwoQuadMaps
    /\ files \in Worlds
    /\ ops = MaxOps - 1
    /\ ret = [ op |-> "add_submap", val |-> TRUE ]
    /\ pc = "idle"
    /\ sv = NoSave
    /\ tasks = NoTasks

FairSpec == InitTwoQuads /\ [][Next]_vars /\ Fairness

\* ------------------------------------------------------------------- claims

\* Every future has been got: save is about to remove what was queued.
AllJoined == pc = "join" /\ sv.got = Len(sv.futures)

\* The step by which save returns to its caller.
SaveReturns == AllJoined /\ pc' = "idle"

\* The step by which save ends, by returning or by an exception.
SaveEnds == pc \in { "join", "unwind" } /\ pc' = "idle"

\* The submaps of quad om resident when the running save began.
ResidentAtSave(om) == QuadSet(om) \cap Resident(sv.submaps0)

\* C1: when the write of a quad's file fails during a save, every submap of
\* that quad that was resident before the save is still resident, and the
\* same, when save returns.
C1_FailedWriteKeepsChunks ==
    [][ SaveReturns =>
          \A om \in DOMAIN tasks :
              tasks[om].fault \in WriteFails =>
                  \A p \in ResidentAtSave(om) :
                      p \in DOMAIN submaps' /\ submaps'[p] = sv.submaps0[p] ]_vars

\* The records save_quad is to write for quad om: one for every submap of
\* the quad resident when the save began, in the order of the offsets.
ExpectedRecords(om) ==
    LET Kept(addr) == addr \in ResidentAtSave(om)
    IN  records_of(sv.submaps0, SelectSeq(submap_addrs(om), Kept))

\* C2: when exactly one of the quads of a save of two or more quads fails
\* (its write fails or its task throws), save returns normally, the file of
\* every other quad with a submap that is not uniform holds the records of
\* its resident submaps, and the submaps of every other quad saved with
\* delete_after_save are removed.
C2_OneFailureIsIsolated ==
    [][ SaveEnds /\ Cardinality(DOMAIN tasks) >= 2 /\ FaultsMet = 1 =>
          /\ ret'.val = "returned"
          /\ \A om \in DOMAIN tasks :
                 tasks[om].fault = "none" =>
                     /\ (\E p \in ResidentAtSave(om) : ~sv.submaps0[p][1].uniform) =>
                            /\ file_exist(files', QuadPath(om))
                            /\ files'[QuadPath(om)] = ExpectedRecords(om)
                     /\ Force(tasks[om]) =>
                            \A p \in ResidentAtSave(om) : p \notin DOMAIN submaps' ]_vars

\* C3: from the launch of the first task of a save until its last task has
\* ended, no key is inserted into the map or removed from it.
C3_MapOnlyReadWhileTasksRun ==
    [][ (\E om \in DOMAIN tasks : Running(om)) => DOMAIN submaps' = DOMAIN submaps ]_vars

\* C4: whenever no save is running, every key of the map holds a submap:
\* no key holds a null pointer.
C4_NoNullEntry ==
    pc = "idle" => \A p \in DOMAIN submaps : submaps[p] # NullPtr

\* C5: add_submap(p, sm) returns true exactly when no submap is resident at
\* p before the call, and the map then holds sm at p; otherwise it returns
\* false and the map is unchanged.
C5_AddSubmapIffNotResident ==
    [][ \A p \in Addrs, sm \in Submaps :
            AddSubmap(p, sm) =>
                IF p \in Resident(submaps)
                THEN ret'.val = FALSE /\ submaps' = submaps
                ELSE ret'.val = TRUE /\ submaps' = Put(submaps, p, Own(sm)) ]_vars

\* C6: for every coordinate and environment, submap_exists answers true
\* exactly when lookup_submap answers a submap, and the two leave the same
\* map behind.
C6_ExistsAgreesWithLookup ==
    pc = "idle" =>
        \A p \in Addrs, env \in Envs :
            LET ex == submap_exists(submaps, files, p, env)
                lk == lookup_submap(submaps, files, p, env)
            IN  /\ ex.ret = IsSubmap(lk.ret)
                /\ ex.submaps = lk.submaps

\* The quad om was saved without a failure by the running save.
SavedQuad(om) ==
    /\ om \in DOMAIN tasks
    /\ tasks[om].pc \in { "saved", "done" }
    /\ tasks[om].fault = "none"

\* All four submaps of quad om were resident and not uniform when the
\* running save began.
FullNonUniformQuad(om) ==
    /\ ResidentAtSave(om) = QuadSet(om)
    /\ \A p \in QuadSet(om) : ~sv.submaps0[p][1].uniform

\* lookup_submap(p) on an empty map, with a file that can be read, brings
\* back exactly the four submaps of quad om with the payload they had when
\* the save began, and answers the one at p.
RoundTrip(om, p, env) ==
    LET r == lookup_submap(EmptyMap, files, p, env)
    IN  /\ DOMAIN r.submaps = QuadSet(om)
        /\ \A q \in QuadSet(om) :
               /\ IsSubmap(r.submaps[q])
               /\ Store(r.submaps[q][1]) = Store(sv.submaps0[q][1])
        /\ r.ret = r.submaps[p]

\* C7: once a quad of four resident submaps that are not uniform has been
\* saved without a failure, looking up any address of the quad on a cleared
\* map makes exactly those four addresses resident again, each with the
\* payload it had when saved.
C7_RoundTrip ==
    \A om \in OmtAddrs :
        SavedQuad(om) /\ FullNonUniformQuad(om) =>
            \A p \in QuadSet(om), env \in Envs :
                env.readable => RoundTrip(om, p, env)

\* A full quad with two different payloads has been saved to a file that
\* did not exist before, and the round trip gives it back.
C7_Witness ==
    \E om \in OmtAddrs :
        /\ SavedQuad(om) /\ FullNonUniformQuad(om)
        /\ ~file_exist(sv.files0, QuadPath(om))
        /\ \E p, q \in QuadSet(om) : sv.submaps0[p] # sv.submaps0[q]
        /\ \A p \in QuadSet(om), env \in Envs : env.readable => RoundTrip(om, p, env)

\* save_quad has run to its end for quad om (a failed write does not stop it).
CompletedQuad(om) == om \in DOMAIN tasks /\ tasks[om].pc \in { "saved", "done" }

\* The file of quad om existed when the save began, every resident submap of
\* the quad was uniform and one of them was flagged reverted.
TombstoneCase(om) ==
    /\ file_exist(sv.files0, QuadPath(om))
    /\ \A p \in ResidentAtSave(om) : sv.submaps0[p][1].uniform
    /\ \E p \in ResidentAtSave(om) : sv.submaps0[p][1].reverted

\* C8: when the file of a quad exists and the resident submaps of the quad
\* are all uniform, one of them flagged reverted, the file does not exist
\* once save_quad has completed for the quad.
C8_TombstoneDeletesFile ==
    \A om \in OmtAddrs :
        CompletedQuad(om) /\ TombstoneCase(om) => ~file_exist(files, QuadPath(om))

\* save_quad has completed for a quad in the tombstone case and its file is gone.
C8_Witness ==
    \E om \in OmtAddrs :
        CompletedQuad(om) /\ TombstoneCase(om) /\ ~file_exist(files, QuadPath(om))

\* C9: save_quad of a quad whose resident submaps are all uniform and that
\* has no file creates no file and changes nothing on disk; it changes
\* nothing else either, except that with delete_after_save it queues the
\* resident submaps of the quad for removal.
C9_UniformSkipHasNoOtherEffect ==
    [][ \A om \in OmtAddrs :
            /\ om \in DOMAIN tasks /\ tasks[om].pc = "launched"
            /\ tasks'[om].pc = "saved"
            /\ \A p \in QuadSet(om) \cap Resident(submaps) : submaps[p][1].uniform
            /\ ~file_exist(files, QuadPath(om))
            => /\ files' = files
               /\ submaps' = submaps
               /\ tasks'[om].local_submaps_to_delete =
                      IF Force(tasks[om]) THEN held_addrs(submaps, om) ELSE << >> ]_vars

\* Every task of the running save has been joined and none met a failure.
SavedWithoutFailure == AllJoined /\ FaultsMet = 0

SomeNonUniform(om) == \E p \in ResidentAtSave(om) : ~sv.submaps0[p][1].uniform

SomeReverted(om) == \E p \in ResidentAtSave(om) : sv.submaps0[p][1].reverted

\* C10, as claimed: after a save without failure, the file of every quad the
\* save processed exists exactly when one of the quad's submaps is not
\* uniform.
C10_FileIffNonUniform ==
    SavedWithoutFailure =>
        \A om \in DOMAIN tasks :
            file_exist(files, QuadPath(om)) <=> SomeNonUniform(om)

\* C10, amended: after a save without failure, the file of every quad the
\* save processed exists exactly when one of the quad's resident submaps is
\* not uniform, or the file existed before the save and no resident submap
\* of the quad is flagged reverted.
C10_FileIffNonUniformOrKept ==
    SavedWithoutFailure =>
        \A om \in DOMAIN tasks :
            file_exist(files, QuadPath(om)) <=>
                \/ SomeNonUniform(om)
                \/ file_exist(sv.files0, QuadPath(om)) /\ ~SomeReverted(om)

\* A save without failure has left in place the file of a quad whose
\* resident submaps are all uniform, none of them flagged reverted.
C10_Witness ==
    /\ SavedWithoutFailure
    /\ \E om \in DOMAIN tasks :
           /\ ~SomeNonUniform(om) /\ ~SomeReverted(om)
           /\ ResidentAtSave(om) # {}
           /\ file_exist(sv.files0, QuadPath(om))
           /\ file_exist(files, QuadPath(om))

\* Quad om has no file, under the name find_quad_path gives or under the
\* name a stream gives in either locale.
NeverPersisted(om) ==
    \A grouping \in BOOLEAN :
        ~file_exist(files, legacy_quad_path(find_dirname(om), om, grouping))

\* lookup_submap( p ) is called for an address with no submap resident, in
\* a quad with no file, where the terrain is uniform.  (A step is a call of
\* lookup_submap exactly when it counts a call and leaves that name in ret.)
LazyLookup(p, env) ==
    /\ LookupSubmap(p, env)
    /\ p \notin Resident(submaps)
    /\ NeverPersisted(ProjectToOmt(p))
    /\ env.uniform_terrain

\* C11, as claimed: lookup_submap of an address that is not resident, in a
\* quad with no file and with uniform terrain, returns a new uniform submap
\* and leaves it resident at that address; no file is needed or made.
C11_LookupSynthesizes ==
    [][ ret'.op = "lookup_submap" /\ ops' # ops =>
        \A p \in Addrs, env \in Envs :
            LazyLookup(p, env) =>
                /\ ret'.val = Own(UniformSm)
                /\ p \in DOMAIN submaps' /\ submaps'[p] = Own(UniformSm)
                /\ files' = files ]_vars

\* C11, amended: lookup_submap of an address that is not resident, in a
\* quad with no file and with uniform terrain, returns a null pointer and
\* leaves the map and the files as they were.
C11_LookupReturnsNull ==
    [][ ret'.op = "lookup_submap" /\ ops' # ops =>
        \A p \in Addrs, env \in Envs :
            LazyLookup(p, env) =>
                /\ ret'.val = NullPtr
                /\ submaps' = submaps
                /\ files' = files ]_vars

\* The first call on an empty map in a world without files was a
\* lookup_submap, and it returned a null pointer.
C11_Witness ==
    /\ ops = 1
    /\ ret = [ op |-> "lookup_submap", val |-> NullPtr ]
    /\ submaps = EmptyMap
    /\ files = NoFiles

\* C12: while a save runs, a key leaves the map only in a step taken when
\* every future has been got and no task runs any more: the removal loop of
\* save, which save itself runs, one remove_submap after the other.
C12_RemovalOnlyAfterJoin ==
    [][ pc # "idle" /\ (DOMAIN submaps) \ (DOMAIN submaps') # {} =>
          /\ AllJoined
          /\ \A om \in DOMAIN tasks : ~Running(om)
          /\ submaps' = remove_all(submaps, sv.submaps_to_delete, 0).submaps ]_vars

\* A save has returned after it changed the files and no submap is resident
\* any more: the submaps it saved were removed after its tasks had ended.
C12_Witness ==
    /\ pc = "idle"
    /\ ret = [ op |-> "save", val |-> "returned" ]
    /\ files \notin Worlds
    /\ Resident(submaps) = {}

\* The quads whose submaps a save without failure is to remove: all of them
\* with delete_after_save, else those outside the reality bubble.
QuadsToEvict ==
    { om \in DOMAIN tasks : sv.delete_after_save \/ ~tasks[om].inside_reality_bubble }

\* C13: when no task fails, the submaps a save removes are exactly the
\* submaps, resident when it began, of the quads that are saved with
\* delete_after_save or lie outside the reality bubble; every other submap
\* stays resident as it was.
C13_EvictedSet ==
    [][ SaveReturns /\ FaultsMet = 0 =>
          /\ Resident(submaps') =
                 Resident(sv.submaps0) \ UNION { ResidentAtSave(om) : om \in QuadsToEvict }
          /\ \A p \in Resident(submaps') : submaps'[p] = sv.submaps0[p]
          /\ sv.delete_after_save => Resident(submaps') = {} ]_vars

\* Every task of a save without delete_after_save has ended without failure;
\* one quad with resident submaps is inside the reality bubble and another
\* is outside, and the submaps queued are those of the second.
C13_Witness ==
    /\ SavedWithoutFailure
    /\ ~sv.delete_after_save
    /\ \E inside, outside \in DOMAIN tasks :
           /\ tasks[inside].inside_reality_bubble /\ ResidentAtSave(inside) # {}
           /\ ~tasks[outside].inside_reality_bubble /\ ResidentAtSave(outside) # {}
           /\ { sv.submaps_to_delete[i] : i \in 1..Len(sv.submaps_to_delete) }
                  = ResidentAtSave(outside)

\* C14: clear_outside_reality_bubble removes exactly the resident submaps
\* whose address is not inbounds: afterwards every resident address is
\* inbounds, every submap whose address is inbounds is still resident and
\* the same, and no key has come into the map.
C14_ClearOutsideFrame ==
    [][ ret'.op = "clear_outside_reality_bubble" /\ ops' # ops =>
        \A inbounds \in Bubbles :
            ClearOutsideRealityBubble(inbounds) =>
                /\ Resident(submaps') = Resident(submaps) \cap inbounds
                /\ \A p \in Resident(submaps') : submaps'[p] = submaps[p]
                /\ DOMAIN submaps' \subseteq DOMAIN submaps ]_vars

\* The second call was clear_outside_reality_bubble and two submaps of the
\* near quad are resident after it: the first call was a lookup_submap that
\* loaded the quad, and the other two submaps have been removed.
C14_Witness ==
    /\ ops = 2
    /\ ret.op = "clear_outside_reality_bubble"
    /\ Resident(submaps) = { submap_addrs(NearOmt)[1], submap_addrs(NearOmt)[2] }

\* The names find_quad_path gives to the quads of the model.
CanonicalPaths == { QuadPath(om) : om \in OmtAddrs }

\* A world whose only file is the canonical file of quad om, with the
\* contents given.
OnlyCanonical(om, contents) == WriteFile(NoFiles, QuadPath(om), contents)

\* A load of p reads the canonical file of its quad when there is one, and
\* otherwise the legacy-named file when there is one, with the result a
\* canonical file of the same contents gives.
LoadsCanonicalElseLegacy(p, env) ==
    LET om     == ProjectToOmt(p)
        canon  == QuadPath(om)
        legacy == legacy_quad_path(find_dirname(om), om, env.grouping)
        loaded == unserialize_submaps(submaps, files, p, env)
    IN  IF file_exist(files, canon)
        THEN loaded = unserialize_submaps(submaps, OnlyCanonical(om, files[canon]), p, env)
        ELSE IF file_exist(files, legacy)
        THEN loaded = unserialize_submaps(submaps, OnlyCanonical(om, files[legacy]), p, env)
        ELSE loaded = [ ret |-> NullPtr, submaps |-> submaps ]

\* C15: a load reads the legacy-named file of a quad only when the quad has
\* no canonical file, and then loads what a canonical file of the same
\* contents would give; when the canonical file exists it is the one read;
\* and no step creates or changes a file under a name other than the
\* canonical one.
C15_LegacyFallback ==
    /\ [](pc = "idle" =>
            \A p \in Addrs \ DOMAIN submaps, env \in Envs : LoadsCanonicalElseLegacy(p, env))
    /\ [][ \A path \in (DOMAIN files') \ CanonicalPaths :
               path \in DOMAIN files /\ files'[path] = files[path] ]_vars

\* The first call was a lookup_submap of the far quad, which has a file
\* under the legacy name only, and it returned the submap of that file.
C15_Witness ==
    /\ ops = 1
    /\ ret = [ op |-> "lookup_submap", val |-> Own(PlainSm(1)) ]
    /\ submap_addrs(FarOmt)[1] \in Resident(submaps)
    /\ ~file_exist(files, QuadPath(FarOmt))
    /\ file_exist(files, legacy_quad_path(find_dirname(FarOmt), FarOmt, TRUE))

\* The records of the file of quad om, as the save found it, of submaps that
\* are not uniform and were not resident when the save began.
PersistedNotResident(om) ==
    IF file_exist(sv.files0, QuadPath(om))
    THEN { rec \in { sv.files0[QuadPath(om)][i] : i \in 1..Len(sv.files0[QuadPath(om)]) } :
               ~rec.payload.uniform /\ rec.coordinates \notin ResidentAtSave(om) }
    ELSE {}

\* C16: when the file of a quad holds the record of a submap that is not
\* uniform and not resident while other submaps of the quad are, then after
\* the quad has been saved without failure the file exists and still holds
\* that record, and a lookup_submap of its address on a cleared map returns
\* the submap of the record.
C16_PersistedChunkKept ==
    \A om \in OmtAddrs :
        SavedQuad(om) /\ ResidentAtSave(om) # {} =>
            \A rec \in PersistedNotResident(om) :
                /\ file_exist(files, QuadPath(om))
                /\ \E i \in 1..Len(files[QuadPath(om)]) : files[QuadPath(om)][i] = rec
                /\ \A env \in Envs :
                       env.readable =>
                           lookup_submap(EmptyMap, files, rec.coordinates, env).ret
                               = Own(Load(rec.payload))

\* The quads of the futures of the running save.
Launched == { sv.futures[i] : i \in 1..Len(sv.futures) }

\* C17: a save launches one task for each quad that has a key in the map and
\* no second task for any quad, so the tasks that run together have
\* different files and each file is written by one task only.
C17_OneTaskPerQuad ==
    /\ \A i, j \in 1..Len(sv.futures) : sv.futures[i] = sv.futures[j] => i = j
    /\ DOMAIN tasks = Launched
    /\ \A om1, om2 \in Launched : QuadPath(om1) = QuadPath(om2) => om1 = om2
    /\ pc \in { "join", "unwind" } =>
           Launched = { ProjectToOmt(k) : k \in DOMAIN sv.submaps0 }

\* The launch loop has ended with two tasks for a map of five keys or more:
\* it passed keys of a quad it had already launched.
C17_Witness ==
    /\ pc = "join"
    /\ Len(sv.futures) = 2
    /\ Cardinality(DOMAIN sv.submaps0) >= 5

\* C18: every save that has begun comes to its end: each of its tasks ends,
\* every future is got, the removal loop runs to its end and save returns.
C18_SaveRunsToCompletion ==
    (pc = "launch") ~> (pc = "idle" /\ ret = [ op |-> "save", val |-> "returned" ])

\* C19: when the removal loop of save begins, submaps_to_delete names no
\* address twice and only addresses at which a submap is resident, so no
\* remove_submap of the loop meets an address that is not a key and issues
\* its debugmsg.
C19_EvictionListIsASet ==
    AllJoined =>
        /\ \A i, j \in 1..Len(sv.submaps_to_delete) :
               sv.submaps_to_delete[i] = sv.submaps_to_delete[j] => i = j
        /\ \A i \in 1..Len(sv.submaps_to_delete) :
               sv.submaps_to_delete[i] \in Resident(submaps)
        /\ remove_all(submaps, sv.submaps_to_delete, 0).debugmsgs = 0

\* C20: whenever lookup_submap( p ) returns a null pointer, p is not a key of
\* the map, so that an add_submap( p, sm ) that follows returns true and a
\* lookup_submap( p ) after it returns sm.
C20_InsertAfterAbsentLookup ==
    [][ ret'.op = "lookup_submap" /\ ops' # ops =>
        \A p \in Addrs, env \in Envs :
            LookupSubmap(p, env) /\ ret'.val = NullPtr =>
                /\ p \notin DOMAIN submaps'
                /\ \A sm \in Submaps :
                       /\ add_submap(submaps', p, sm).ret
                       /\ lookup_submap(add_submap(submaps', p, sm).submaps,
                                        files', p, env).ret = Own(sm) ]_vars

====
